---- MODULE Spec2Model ----
(***************************************************************************)
(* Cell-based NAS network (model.py, ops.py): construction of the cell     *)
(* stack by CNN.__init__ and the shape arithmetic of CNN.forward.          *)
(* A tensor of shape (batch, C, L) is the record [C |-> C, L |-> L]; the   *)
(* batch dimension is never changed by any operator and is left out.       *)
(***************************************************************************)
EXTENDS Integers, Sequences, FiniteSets, TLC

\* ---- bounds of the explored inputs ----
MaxLayers == 4
MaxNodes == 2
MaxChannels == 2
MaxStemMultiplier == 2
MaxInChannels == 1
MaxInputSize == 12

\* the input size the auxiliary head is built for
AuxInputSize == 8

\* input lengths: every length up to MaxInputSize, and the length that two
\* reductions bring down to the size the auxiliary head is built for
InputSizes == (1..MaxInputSize) \cup {4 * AuxInputSize}

VARIABLES pc, in_channels, n_layers, n_nodes, channels, stem_multiplier, auxiliary,
          aux_pos, c_cur, channels_pp, channels_p, reduction_p, reduction,
          i, stem, cells, aux_head, linear, training,
          x, s0, s1, aux_logits, aux_applied, result

vars == <<pc, in_channels, n_layers, n_nodes, channels, stem_multiplier, auxiliary,
          aux_pos, c_cur, channels_pp, channels_p, reduction_p, reduction,
          i, stem, cells, aux_head, linear, training,
          x, s0, s1, aux_logits, aux_applied, result>>

\* ---- tensors and library primitives (shape arithmetic only) ----

\* outcome of an operator that raises (shape mismatch, empty output)
Err == [C |-> -1, L |-> -1]

None == [type |-> "None"]

IsErr(t) == t = Err

\* nn.Conv1d(C_in, C_out, kernel_size, stride, padding, dilation, groups)
Conv1d(C_in, C_out, k, s, p, d, g, t) ==
  IF IsErr(t) \/ t.C # C_in \/ C_out < 1 \/ C_in % g # 0 \/ C_out % g # 0
  THEN Err
  ELSE LET num == t.L + 2 * p - d * (k - 1) - 1
       IN IF num < 0 THEN Err ELSE [C |-> C_out, L |-> (num \div s) + 1]

\* nn.MaxPool1d / nn.AvgPool1d(kernel_size, stride, padding)
Pool1d(k, s, p, t) ==
  IF IsErr(t)
  THEN Err
  ELSE LET num == t.L + 2 * p - k
       IN IF num < 0 THEN Err ELSE [C |-> t.C, L |-> (num \div s) + 1]

\* nn.BatchNorm1d(C)
BatchNorm1d(C, t) ==
  IF IsErr(t) \/ t.C # C THEN Err ELSE t

\* x[:, :, 1:]
DropFirst(t) ==
  IF IsErr(t) THEN Err ELSE [C |-> t.C, L |-> IF t.L > 0 THEN t.L - 1 ELSE 0]

RECURSIVE SumC(_)
SumC(ts) == IF ts = <<>> THEN 0 ELSE Head(ts).C + SumC(Tail(ts))

\* torch.cat(ts, dim=1)
Cat(ts) ==
  IF \E k \in 1..Len(ts) : IsErr(ts[k]) \/ ts[k].L # ts[1].L
  THEN Err
  ELSE [C |-> SumC(ts), L |-> ts[1].L]

\* elementwise sum of two tensors (no broadcasting applies for L > 1)
Add(a, b) == IF IsErr(a) \/ IsErr(b) \/ a # b THEN Err ELSE a

\* ---- ops.py modules: constructors ----

PoolBN(pool_type, C, kernel_size, stride, padding) ==
  [type |-> "PoolBN", pool |-> pool_type, C |-> C, kernel_size |-> kernel_size,
   stride |-> stride, padding |-> padding]

StdConv(C_in, C_out, kernel_size, stride, padding) ==
  [type |-> "StdConv", C_in |-> C_in, C_out |-> C_out,
   kernel_size |-> kernel_size, stride |-> stride, padding |-> padding]

DilConv(C_in, C_out, kernel_size, stride, padding, dilation) ==
  [type |-> "DilConv", C_in |-> C_in, C_out |-> C_out,
   kernel_size |-> kernel_size, stride |-> stride, padding |-> padding,
   dilation |-> dilation]

SepConv(C_in, C_out, kernel_size, stride, padding) ==
  [type |-> "SepConv",
   first |-> DilConv(C_in, C_out, kernel_size, stride, padding, 1),
   second |-> DilConv(C_in, C_out, kernel_size, 1, padding, 1)]

FactorizedReduce(C_in, C_out) ==
  [type |-> "FactorizedReduce", C_in |-> C_in, C_half |-> C_out \div 2,
   C_out |-> C_out]

Identity == [type |-> "Identity"]

\* ---- ops.py modules: forward ----

DilConvForward(m, t) ==
  BatchNorm1d(m.C_out,
    Conv1d(m.C_in, m.C_out, 1, 1, 0, 1, 1,
      Conv1d(m.C_in, m.C_in, m.kernel_size, m.stride, m.padding, m.dilation,
             m.C_in, t)))

FactorizedReduceForward(m, t) ==
  BatchNorm1d(m.C_out,
    Cat(<<Conv1d(m.C_in, m.C_half, 1, 2, 0, 1, 1, t),
          Conv1d(m.C_in, m.C_half, 1, 2, 0, 1, 1, DropFirst(t))>>))

OpForward(m, t) ==
  CASE m.type = "PoolBN" ->
         BatchNorm1d(m.C, Pool1d(m.kernel_size, m.stride, m.padding, t))
    [] m.type = "StdConv" ->
         BatchNorm1d(m.C_out,
           Conv1d(m.C_in, m.C_out, m.kernel_size, m.stride, m.padding, 1, 1, t))
    [] m.type = "DilConv" -> DilConvForward(m, t)
    [] m.type = "SepConv" -> DilConvForward(m.second, DilConvForward(m.first, t))
    [] m.type = "FactorizedReduce" -> FactorizedReduceForward(m, t)
    [] m.type = "Identity" -> t

\* ---- nni mutables (LayerChoice, InputChoice) and OrderedDict ----

\* OrderedDict(pairs): later pairs with an existing key replace its value
RECURSIVE OrderedDict(_)
OrderedDict(pairs) ==
  IF pairs = <<>>
  THEN <<>>
  ELSE LET init == OrderedDict(SubSeq(pairs, 1, Len(pairs) - 1))
           last == pairs[Len(pairs)]
       IN IF \E k \in 1..Len(init) : init[k][1] = last[1]
          THEN [k \in 1..Len(init) |->
                  IF init[k][1] = last[1] THEN last ELSE init[k]]
          ELSE Append(init, last)

LayerChoice(op_candidates, key) ==
  [type |-> "LayerChoice", candidates |-> op_candidates, key |-> key]

InputChoice(choose_from, n_chosen, key) ==
  [type |-> "InputChoice", choose_from |-> choose_from, n_chosen |-> n_chosen,
   key |-> key]

\* variant: the key leaves out the predecessor index
ChoiceKey_NoPredecessor(node_id, k) == node_id \o "_p"

\* "{}_p{}".format(node_id, i)
ChoiceKey(node_id, k) == node_id \o "_p" \o ToString(k)

\* "{}_n{}".format("reduce" if reduction else "normal", depth)
NodeId(red, depth) ==
  (IF red THEN "reduce" ELSE "normal") \o "_n" \o ToString(depth)

\* the candidate operators of one connection
Candidates(ch, stride) ==
  OrderedDict(<<
    <<"maxpool", PoolBN("max", ch, 3, stride, 1)>>,
    <<"avgpool", PoolBN("avg", ch, 3, stride, 1)>>,
    <<"skipconnect", IF stride = 1 THEN Identity ELSE FactorizedReduce(ch, ch)>>,
    <<"sepconv3x3", SepConv(ch, ch, 3, stride, 1)>>,
    <<"sepconv5x5", SepConv(ch, ch, 5, stride, 2)>>,
    <<"dilconv3x3", DilConv(ch, ch, 3, stride, 2, 2)>>,
    <<"dilconv5x5", DilConv(ch, ch, 5, stride, 4, 2)>> >>)

\* ---- model.py: Node, Cell, AuxiliaryHead constructors ----

ConnStride(k, num_downsample_connect) ==
  IF k < num_downsample_connect THEN 2 ELSE 1

NodeChoiceKeys(node_id, num_prev_nodes) ==
  [j \in 1..num_prev_nodes |-> ChoiceKey(node_id, j - 1)]

Node(node_id, num_prev_nodes, ch, num_downsample_connect) ==
  [ops |-> [j \in 1..num_prev_nodes |->
              LayerChoice(Candidates(ch, ConnStride(j - 1, num_downsample_connect)),
                          NodeChoiceKeys(node_id, num_prev_nodes)[j])],
   input_switch |-> InputChoice(NodeChoiceKeys(node_id, num_prev_nodes), 2,
                                node_id \o "_switch")]

\* variant: preproc0 never reduces
CellPreproc0_NoReduce(ch_pp, ch, red_p) == StdConv(ch_pp, ch, 1, 1, 0)

CellPreproc0(ch_pp, ch, red_p) ==
  IF red_p THEN FactorizedReduce(ch_pp, ch) ELSE StdConv(ch_pp, ch, 1, 1, 0)

Cell(nn, ch_pp, ch_p, ch, red_p, red) ==
  [reduction |-> red,
   n_nodes |-> nn,
   preproc0 |-> CellPreproc0(ch_pp, ch, red_p),
   preproc1 |-> StdConv(ch_p, ch, 1, 1, 0),
   mutable_ops |-> [j \in 1..nn |->
                      Node(NodeId(red, j + 1), j + 1, ch, IF red THEN 2 ELSE 0)]]

\* AuxiliaryHead(input_size, C, n_classes); the assert admits 7 and 8 only
AuxiliaryHead(input_size, C) ==
  IF input_size \notin {7, 8}
  THEN [type |-> "AssertionError"]
  ELSE [type |-> "AuxiliaryHead", pool_stride |-> input_size - 5, C |-> C]

\* ---- model.py: forward passes ----

\* shapes a LayerChoice can produce: one candidate (fixed architecture) or
\* the sum of all candidates (search)
LayerChoiceOut(lc, t) ==
  LET S == {OpForward(lc.candidates[k][2], t) : k \in 1..Len(lc.candidates)}
  IN S \cup (IF Cardinality(S) > 1 THEN {Err} ELSE {})

\* Node.forward: every op is applied to its predecessor (DropPath keeps the
\* shape), then the InputChoice sums the chosen inputs
NodeForward(node, prev_nodes) ==
  IF Len(node.ops) # Len(prev_nodes)
  THEN {Err}
  ELSE LET d == Len(node.ops)
           P(k) == LayerChoiceOut(node.ops[k], prev_nodes[k])
           Good(k) == P(k) \ {Err}
       IN (IF \E k \in 1..d : Err \in P(k) THEN {Err} ELSE {})
          \cup
          (IF \A k \in 1..d : Good(k) # {}
           THEN {Add(ta, tb) : ta \in UNION {Good(k) : k \in 1..d},
                               tb \in UNION {Good(k) : k \in 1..d}}
           ELSE {})

RECURSIVE CellTensors(_, _, _)
CellTensors(nodes, k, tensors) ==
  IF k > Len(nodes)
  THEN {tensors}
  ELSE UNION {CellTensors(nodes, k + 1, Append(tensors, o)) :
                o \in NodeForward(nodes[k], tensors)}

\* Cell.forward: the set of shapes the cell output can have
CellForward(cell, t0, t1) ==
  {Cat(SubSeq(ts, 3, Len(ts))) :
     ts \in CellTensors(cell.mutable_ops, 1,
                        <<OpForward(cell.preproc0, t0),
                          OpForward(cell.preproc1, t1)>>)}

\* AuxiliaryHead.forward: ReLU, AvgPool1d(5, stride), Conv1d(C,128,1), BN,
\* Conv1d(128,768,2), BN, flatten, Linear(768, n_classes)
AuxiliaryHeadForward(h, t) ==
  LET y == BatchNorm1d(768,
             Conv1d(128, 768, 2, 1, 0, 1, 1,
               BatchNorm1d(128,
                 Conv1d(h.C, 128, 1, 1, 0, 1, 1,
                   Pool1d(5, h.pool_stride, 0, t)))))
  IN IF IsErr(y) \/ y.C * y.L # 768 THEN Err ELSE y

\* ---- state machine: CNN.__init__ and CNN.forward ----

Init ==
  /\ pc = "new"
  /\ in_channels = 0 /\ n_layers = 0 /\ n_nodes = 0 /\ channels = 0
  /\ stem_multiplier = 0 /\ auxiliary = FALSE
  /\ aux_pos = 0 /\ c_cur = 0 /\ channels_pp = 0 /\ channels_p = 0
  /\ reduction_p = FALSE /\ reduction = FALSE
  /\ i = 0 /\ stem = None /\ cells = <<>> /\ aux_head = None /\ linear = None
  /\ training = TRUE
  /\ x = None /\ s0 = None /\ s1 = None /\ aux_logits = None
  /\ aux_applied = {} /\ result = "none"

\* variant: the head is placed after the 2/3 cell
AuxPos_OffByOne(nl, aux) == IF aux THEN (2 * nl) \div 3 + 1 ELSE -1

\* position of the auxiliary head
AuxPos(nl, aux) == IF aux THEN (2 * nl) \div 3 ELSE -1

\* variant: 2 * (n_layers // 3) in place of (2 * n_layers) // 3
ReductionIndices_Precedence(nl) == {nl \div 3, 2 * (nl \div 3)}

\* indices of the reduction cells
ReductionIndices(nl) == {nl \div 3, (2 * nl) \div 3}

\* variant: the output is taken to have the channels of one node
CellOutChannels_OneNode(cc, nn) == cc

\* c_cur_out: channels of a cell's output, the concatenation of its nodes
CellOutChannels(cc, nn) == cc * nn

\* CNN.__init__ up to the start of the cell loop
CNN_init(in_ch, ch, nl, nn, sm, aux) ==
  /\ pc = "new"
  /\ pc' = "build"
  /\ in_channels' = in_ch /\ channels' = ch /\ n_layers' = nl /\ n_nodes' = nn
  /\ stem_multiplier' = sm /\ auxiliary' = aux
  /\ aux_pos' = AuxPos(nl, aux)
  /\ stem' = [C_in |-> in_ch, C_out |-> sm * ch]
  /\ channels_pp' = sm * ch /\ channels_p' = sm * ch /\ c_cur' = ch
  /\ cells' = <<>>
  /\ reduction_p' = FALSE /\ reduction' = FALSE
  /\ i' = 0
  /\ UNCHANGED <<aux_head, linear, training, x, s0, s1, aux_logits,
                 aux_applied, result>>

\* one iteration of the cell loop of CNN.__init__
CNN_init_cell ==
  /\ pc = "build"
  /\ i < n_layers
  /\ LET red == i \in ReductionIndices(n_layers)
         cc == IF red THEN c_cur * 2 ELSE c_cur
         head == AuxiliaryHead(AuxInputSize, CellOutChannels(cc, n_nodes))
     IN /\ reduction_p' = reduction
        /\ reduction' = red
        /\ c_cur' = cc
        /\ cells' = Append(cells,
                           Cell(n_nodes, channels_pp, channels_p, cc, reduction, red))
        /\ channels_pp' = channels_p
        /\ channels_p' = CellOutChannels(cc, n_nodes)
        /\ aux_head' = IF i = aux_pos THEN head ELSE aux_head
        /\ pc' = IF i = aux_pos /\ head.type = "AssertionError"
                 THEN "raised_init" ELSE "build"
  /\ i' = i + 1
  /\ UNCHANGED <<in_channels, n_layers, n_nodes, channels, stem_multiplier,
                 auxiliary, aux_pos, stem, linear, training, x, s0, s1,
                 aux_logits, aux_applied, result>>

\* end of CNN.__init__: gap and the final classifier
CNN_init_end ==
  /\ pc = "build"
  /\ i = n_layers
  /\ linear' = [type |-> "Linear", in_features |-> channels_p]
  /\ pc' = "built"
  /\ UNCHANGED <<in_channels, n_layers, n_nodes, channels, stem_multiplier,
                 auxiliary, aux_pos, c_cur, channels_pp, channels_p,
                 reduction_p, reduction, i, stem, cells, aux_head, training,
                 x, s0, s1, aux_logits, aux_applied, result>>

\* nn.Module.train(mode) / eval() on the built network
train(mode) ==
  /\ pc = "built"
  /\ training' = mode
  /\ UNCHANGED <<pc, in_channels, n_layers, n_nodes, channels, stem_multiplier,
                 auxiliary, aux_pos, c_cur, channels_pp, channels_p,
                 reduction_p, reduction, i, stem, cells, aux_head, linear,
                 x, s0, s1, aux_logits, aux_applied, result>>

\* stem: Conv1d(in_channels, c_cur, 3, 1, 1), BatchNorm1d(c_cur)
StemForward(st, t) ==
  BatchNorm1d(st.C_out, Conv1d(st.C_in, st.C_out, 3, 1, 1, 1, 1, t))

\* CNN.forward up to the start of the cell loop, on an input of length len
forward_stem(len) ==
  /\ pc = "built"
  /\ LET t == [C |-> in_channels, L |-> len]
         s == StemForward(stem, t)
     IN /\ x' = t
        /\ s0' = s /\ s1' = s
        /\ pc' = IF IsErr(s) THEN "raised_stem" ELSE "forward"
  /\ aux_logits' = None
  /\ aux_applied' = {}
  /\ i' = 0
  /\ UNCHANGED <<in_channels, n_layers, n_nodes, channels, stem_multiplier,
                 auxiliary, aux_pos, c_cur, channels_pp, channels_p,
                 reduction_p, reduction, stem, cells, aux_head, linear,
                 training, result>>

\* one iteration of the cell loop of CNN.forward
forward_cell ==
  /\ pc = "forward"
  /\ i < Len(cells)
  /\ \E out \in CellForward(cells[i + 1], s0, s1) :
       LET use_aux == i = aux_pos /\ training
           a == IF aux_head = None THEN Err ELSE AuxiliaryHeadForward(aux_head, out)
       IN IF IsErr(out) \/ (use_aux /\ IsErr(a))
          THEN /\ pc' = IF IsErr(out) THEN "raised_cell" ELSE "raised_aux"
               /\ UNCHANGED <<s0, s1, aux_logits, aux_applied>>
          ELSE /\ pc' = "forward"
               /\ s0' = s1
               /\ s1' = out
               /\ aux_logits' = IF use_aux THEN a ELSE aux_logits
               /\ aux_applied' = IF use_aux THEN aux_applied \cup {i}
                                 ELSE aux_applied
  /\ i' = i + 1
  /\ UNCHANGED <<in_channels, n_layers, n_nodes, channels, stem_multiplier,
                 auxiliary, aux_pos, c_cur, channels_pp, channels_p,
                 reduction_p, reduction, stem, cells, aux_head, linear,
                 training, x, result>>

\* gap, flatten and linear
HeadForward(lin, t) ==
  IF IsErr(t) \/ t.L < 1 \/ t.C # lin.in_features THEN Err ELSE [C |-> t.C, L |-> 1]

\* end of CNN.forward: classifier and the returned value
forward_end ==
  /\ pc = "forward"
  /\ i = Len(cells)
  /\ IF IsErr(HeadForward(linear, s1))
     THEN pc' = "raised_head" /\ result' = "none"
     ELSE /\ pc' = "done"
          /\ result' = IF aux_logits # None THEN "logits_aux" ELSE "logits"
  /\ UNCHANGED <<in_channels, n_layers, n_nodes, channels, stem_multiplier,
                 auxiliary, aux_pos, c_cur, channels_pp, channels_p,
                 reduction_p, reduction, i, stem, cells, aux_head, linear,
                 training, x, s0, s1, aux_logits, aux_applied>>

Next ==
  \/ \E in_ch \in 1..MaxInChannels, ch \in 1..MaxChannels, nl \in 1..MaxLayers,
        nn \in 1..MaxNodes, sm \in 1..MaxStemMultiplier, aux \in BOOLEAN :
       CNN_init(in_ch, ch, nl, nn, sm, aux)
  \/ CNN_init_cell
  \/ CNN_init_end
  \/ \E mode \in BOOLEAN : train(mode)
  \/ \E len \in InputSizes : forward_stem(len)
  \/ forward_cell
  \/ forward_end

Spec == Init /\ [][Next]_vars

\* ---- properties ----

Built == pc \in {"built", "forward", "done"}

KindOf(cell) == IF cell.reduction THEN "reduce" ELSE "normal"

CandidateNames(lc) == [k \in 1..Len(lc.candidates) |-> lc.candidates[k][1]]

\* all (depth, predecessor) connections of a cell
Connections(cell) ==
  UNION {{<<j, k>> : k \in 1..Len(cell.mutable_ops[j].ops)} :
           j \in 1..Len(cell.mutable_ops)}

\* C1: in every cell built, the node at depth d (2..n_nodes+1) owns exactly d
\* LayerChoices, one per predecessor 0..d-1, keyed "<normal|reduce>_n<d>_p<i>",
\* no key is repeated inside the cell, each LayerChoice offers exactly the
\* seven candidate operators, and the node's InputChoice chooses 2 inputs from
\* exactly the node's d keys.
C1_OneChoicePerConnection ==
  \A c \in 1..Len(cells) :
    LET cell == cells[c]
    IN /\ n_nodes >= 1
       /\ Len(cell.mutable_ops) = n_nodes
       /\ \A j \in 1..Len(cell.mutable_ops) :
            LET node == cell.mutable_ops[j]
                d == j + 1
            IN /\ Len(node.ops) = d
               /\ \A k \in 1..Len(node.ops) :
                    /\ node.ops[k].type = "LayerChoice"
                    /\ node.ops[k].key =
                         KindOf(cell) \o "_n" \o ToString(d) \o "_p" \o ToString(k - 1)
                    /\ CandidateNames(node.ops[k]) =
                         <<"maxpool", "avgpool", "skipconnect", "sepconv3x3",
                           "sepconv5x5", "dilconv3x3", "dilconv5x5">>
               /\ node.input_switch.n_chosen = 2
               /\ node.input_switch.choose_from =
                    [k \in 1..d |-> node.ops[k].key]
       /\ \A a \in Connections(cell), b \in Connections(cell) :
            a # b => cell.mutable_ops[a[1]].ops[a[2]].key #
                     cell.mutable_ops[b[1]].ops[b[2]].key

\* a reduction cell with at least two intermediate nodes has been built
C1_Witness ==
  /\ pc = "built"
  /\ \E c \in 1..Len(cells) :
       /\ cells[c].reduction
       /\ Len(cells[c].mutable_ops) >= 2
       /\ cells[c].mutable_ops[2].ops[3].key = "reduce_n3_p2"

\* per-node channel count of cell number c (1-based)
CellChannels(c) == cells[c].preproc1.C_out

ReductionCells == {c \in 1..Len(cells) : cells[c].reduction}

\* cell c (1-based) is a reduction cell with the channels doubled exactly at
\* the 1/3 and 2/3 layer, and the channels are unchanged elsewhere
C2_Placement ==
  \A c \in 1..Len(cells) :
    LET prev == IF c = 1 THEN channels ELSE CellChannels(c - 1)
        at == (c - 1 = n_layers \div 3) \/ (c - 1 = (2 * n_layers) \div 3)
    IN /\ cells[c].reduction <=> at
       /\ CellChannels(c) = IF at THEN 2 * prev ELSE prev

\* C2 as stated: for every n_layers >= 1 the placement holds, exactly two
\* cells are reduction cells and the last cell has 4 * channels per node.
C2_Original ==
  Built =>
    /\ C2_Placement
    /\ Cardinality(ReductionCells) = 2
    /\ CellChannels(n_layers) = 4 * channels

\* C2 amended: the placement holds for every n_layers >= 1; for n_layers >= 2
\* exactly two cells are reduction cells and the last cell has 4 * channels
\* per node; for n_layers = 1 both indices are 0, so the only cell is the
\* single reduction cell and has 2 * channels per node.
C2_Amended ==
  Built =>
    /\ Len(cells) = n_layers
    /\ C2_Placement
    /\ n_layers >= 2 => /\ Cardinality(ReductionCells) = 2
                        /\ CellChannels(n_layers) = 4 * channels
    /\ n_layers = 1 => /\ Cardinality(ReductionCells) = 1
                       /\ CellChannels(n_layers) = 2 * channels

\* a network built with two distinct reduction cells and normal cells around
C2_Witness ==
  /\ pc = "built"
  /\ n_layers = 4
  /\ ReductionCells = {2, 3}
  /\ CellChannels(4) = 4 * channels

\* C3: forward returns (logits, aux_logits) exactly when the network was
\* built with auxiliary=True and is in training mode, and logits alone
\* otherwise; with auxiliary=True, aux_pos = 2 * n_layers // 3 is a valid cell
\* index for every n_layers >= 1, so aux_head is created by the constructor
\* and is applied to the output of exactly that cell.
C3_AuxiliaryReturn ==
  /\ pc = "done" =>
       /\ result \in {"logits", "logits_aux"}
       /\ result = "logits_aux" <=> (auxiliary /\ training)
       /\ (auxiliary /\ training) => aux_applied = {aux_pos}
  /\ pc \in {"forward", "done"} =>
       /\ aux_applied \subseteq {aux_pos}
       /\ (aux_logits # None) <=> (aux_applied # {})
       /\ ~(auxiliary /\ training) => aux_applied = {}
  /\ (Built /\ auxiliary) =>
       /\ aux_pos = (2 * n_layers) \div 3
       /\ aux_pos \in 0..(n_layers - 1)
       /\ aux_head.type = "AuxiliaryHead"
       /\ aux_head.C = n_nodes * CellChannels(aux_pos + 1)
  /\ (Built /\ ~auxiliary) => aux_pos = -1 /\ aux_head = None
  /\ pc # "raised_init"

\* a training-mode forward of a network with an auxiliary head has returned
C3_Witness ==
  /\ pc = "done"
  /\ auxiliary /\ training
  /\ result = "logits_aux"
  /\ n_layers >= 2

\* channels of the stem output
StemChannels == stem_multiplier * channels

\* channels of the output of cell c (1-based), or of the stem for c <= 0
OutChannels(c) == IF c <= 0 THEN StemChannels ELSE n_nodes * CellChannels(c)

\* C4: for every cell i the channels_pp given to Cell i equals the channels
\* of the tensor s0 it receives in forward (output of cell i-2, or of the
\* stem when i < 2) and channels_p equals the channels of s1 (output of cell
\* i-1, or of the stem when i = 0), a cell's output having n_nodes * c_cur
\* channels; and the in_features of the final Linear equals the channels of
\* the last cell's output.
C4_ChannelBookkeeping ==
  /\ Built =>
       /\ \A c \in 1..Len(cells) :
            /\ cells[c].preproc0.C_in = OutChannels(c - 2)
            /\ cells[c].preproc1.C_in = OutChannels(c - 1)
       /\ linear.in_features = OutChannels(n_layers)
  /\ pc = "forward" =>
       /\ s1.C = OutChannels(i)
       /\ s0.C = OutChannels(i - 1)
       /\ i < Len(cells) =>
            /\ cells[i + 1].preproc0.C_in = s0.C
            /\ cells[i + 1].preproc1.C_in = s1.C
       /\ i = Len(cells) => linear.in_features = s1.C
  /\ pc # "raised_head"

\* forward is about to run a cell whose s0 is the output of cell i-2
C4_Witness ==
  /\ pc = "forward"
  /\ i >= 2 /\ i < Len(cells)
  /\ n_nodes >= 2
  /\ s0.C # s1.C
  /\ cells[i + 1].preproc0.C_in = s0.C

\* C5: preproc0 is a stride-2 FactorizedReduce exactly when the previous cell
\* was a reduction cell and a stride-1 StdConv otherwise; for every n_layers
\* and every input length divisible by 4, in every cell of forward
\* preproc0(s0) and preproc1(s1) have equal length and both have the cell's
\* `channels` channels (so no cell raises on such an input).
C5_PreprocLengths ==
  /\ \A c \in 1..Len(cells) :
       IF c > 1 /\ cells[c - 1].reduction
       THEN cells[c].preproc0.type = "FactorizedReduce"
       ELSE cells[c].preproc0.type = "StdConv" /\ cells[c].preproc0.stride = 1
  /\ (pc = "forward" /\ i < Len(cells) /\ x.L % 4 = 0) =>
       LET a == OpForward(cells[i + 1].preproc0, s0)
           b == OpForward(cells[i + 1].preproc1, s1)
           ch == cells[i + 1].mutable_ops[1].ops[1].candidates[1][2].C
       IN /\ ~IsErr(a) /\ ~IsErr(b)
          /\ a.L = b.L
          /\ a.C = ch /\ b.C = ch
  /\ (pc \in {"raised_stem", "raised_cell"}) => x.L % 4 # 0

\* forward is about to run the cell that follows two adjacent reduction cells
C5_Witness ==
  /\ pc = "forward"
  /\ x.L % 4 = 0
  /\ i >= 2 /\ i < Len(cells)
  /\ cells[i].reduction /\ cells[i - 1].reduction
  /\ s0.L = 2 * s1.L
  /\ OpForward(cells[i + 1].preproc0, s0).L = s1.L

====
